---------------------------- MODULE Spec2Model ----------------------------
(***************************************************************************)
(* A model of the two language servers of echo_lsp_server:                 *)
(*   LLMCoder       (src/server/llmcoder.py, src/server/lsp_stream_io.py)  *)
(*   EchoLSPServer  (src/server/echo_lsp_server.py)                        *)
(* Both run one asyncio event loop.  run() reads one message at a time and *)
(* hands each to its own dispatch task; a trigger handler spawns a         *)
(* completion ("ghost text") task; every frame is written by an executor   *)
(* thread while the writer is suspended.                                   *)
(*                                                                         *)
(* The event loop is modelled by its FIFO queue of ready handles (ready):  *)
(* the first step or the wake-up of a task, the completion of an executor  *)
(* future, the done-callback of a completion task.  What happens outside   *)
(* the loop thread (a message arriving on stdin, an executor thread        *)
(* starting or finishing a write, the collaborator answering) is an action *)
(* of its own, taken at any time.                                          *)
(***************************************************************************)
EXTENDS Integers, Sequences, FiniteSets, TLC

(***************************************************************************)
(* Bounds of the model.                                                    *)
(***************************************************************************)
\* messages read off the wire in one run
MaxMsgs == 3
\* calls of send in one run of the byte stream
MaxSends == 2
\* the longest response text and suffix context remove_suffix is tried on
MaxText == 3

(***************************************************************************)
(* Program constants.                                                      *)
(***************************************************************************)
PREFIX_CONTEXT_LINES == 30
SUFFIX_CONTEXT_LINES == 30
\* the code of the error response of dispatch_message
InternalError == -32603

(***************************************************************************)
(* Text.  A string is a sequence of characters; NL is the line break.      *)
(***************************************************************************)
NL == "LF"

\* the id of a message that carries none
NoId == 0

Min(a, b) == IF a < b THEN a ELSE b
Max(a, b) == IF a > b THEN a ELSE b

\* s[i:j] of Python for 0 <= i, 0 <= j (both clipped to the length)
Slice(s, i, j) == SubSeq(s, Min(i, Len(s)) + 1, Min(j, Len(s)))

RECURSIVE SplitAcc(_, _, _)
SplitAcc(rest, cur, acc) ==
  IF rest = <<>>
  THEN (IF cur = <<>> THEN acc ELSE Append(acc, cur))
  ELSE IF Head(rest) = NL
       THEN SplitAcc(Tail(rest), <<>>, Append(acc, cur))
       ELSE SplitAcc(Tail(rest), Append(cur, Head(rest)), acc)

\* str.splitlines(): no empty last line after a final line break
SplitLines(text) == SplitAcc(text, <<>>, <<>>)

RECURSIVE Join(_)
\* "\n".join(lines)
Join(lines) ==
  IF lines = <<>> THEN <<>>
  ELSE IF Len(lines) = 1 THEN lines[1]
  ELSE lines[1] \o <<NL>> \o Join(Tail(lines))

\* text.endswith(c)
EndsWith(text, c) ==
  /\ Len(c) <= Len(text)
  /\ SubSeq(text, Len(text) - Len(c) + 1, Len(text)) = c

RECURSIVE RemoveLoop(_, _, _)
RemoveLoop(text, suffix, i) ==
  IF i <= 0 THEN text
  ELSE IF EndsWith(text, SubSeq(suffix, 1, i))
       THEN SubSeq(text, 1, Len(text) - i)
       ELSE RemoveLoop(text, suffix, i - 1)

\* a remove_suffix that always drops the last character
remove_last(text, suffix) == SubSeq(text, 1, Len(text) - 1)

\* a remove_suffix that drops the shortest overlap it finds
remove_shortest(text, suffix) ==
  LET found == {i \in 1..Min(Len(text), Len(suffix)) :
                  EndsWith(text, SubSeq(suffix, 1, i))}
  IN IF found = {} THEN text
     ELSE SubSeq(text, 1,
                 Len(text) - (CHOOSE i \in found : \A j \in found : i <= j))

\* remove_suffix of handle_trigger_ghost_text, the suffix a parameter
remove_suffix(text, suffix) ==
  RemoveLoop(text, suffix, Min(Len(text), Len(suffix)))

\* the suffix context of the prompt: lines is the document, 0-based line
SuffixOf(lines, line, character) ==
  Slice(lines[line + 1], character, Len(lines[line + 1])) \o <<NL>>
    \o Join(Slice(lines, line + 1, line + 1 + SUFFIX_CONTEXT_LINES))

\* the prefix context of the prompt
PrefixOf(lines, line, character) ==
  Join(Slice(lines, Max(0, line - PREFIX_CONTEXT_LINES), line)) \o <<NL>>
    \o Slice(lines[line + 1], 0, character)

(***************************************************************************)
(* Framing: the header block of read_message.  A header line is the        *)
(* sequence of its characters, already decoded and stripped.               *)
(***************************************************************************)
\* content_length = None
None == -1

HeaderName ==
  <<"C", "o", "n", "t", "e", "n", "t", "-", "L", "e", "n", "g", "t", "h",
    ":", " ">>

Digits == <<"0", "1", "2", "3", "4", "5", "6", "7", "8", "9">>
IsDigit(c) == \E i \in 1..Len(Digits) : Digits[i] = c
DigitVal(c) == (CHOOSE i \in 1..Len(Digits) : Digits[i] = c) - 1

RECURSIVE LeadingDigits(_)
\* the group (\d+) matches the longest run of digits
LeadingDigits(s) ==
  IF s = <<>> \/ ~IsDigit(Head(s)) THEN <<>>
  ELSE <<Head(s)>> \o LeadingDigits(Tail(s))

\* re.match(r"Content-Length: (\d+)", line): the digits of the group, <<>>
\* when the line does not match
MatchLength(line) ==
  IF Len(line) > Len(HeaderName)
     /\ SubSeq(line, 1, Len(HeaderName)) = HeaderName
  THEN LeadingDigits(SubSeq(line, Len(HeaderName) + 1, Len(line)))
  ELSE <<>>

RECURSIVE IntOf(_)
\* int(match.group(1))
IntOf(ds) ==
  IF ds = <<>> THEN 0
  ELSE 10 * IntOf(SubSeq(ds, 1, Len(ds) - 1)) + DigitVal(ds[Len(ds)])

RECURSIVE HeaderLength(_, _)
\* the while loop of read_message over the lines before the empty one: cl is
\* content_length so far
HeaderLength(lines, cl) ==
  IF lines = <<>> THEN cl
  ELSE HeaderLength(Tail(lines),
                    IF MatchLength(Head(lines)) # <<>>
                    THEN IntOf(MatchLength(Head(lines))) ELSE cl)

(***************************************************************************)
(* Framing: what send writes and read_message reads back.  A payload is a  *)
(* JSON object of string members, the sequence of its <<key, value>>       *)
(* pairs; a text is a sequence of characters, a stream a sequence of       *)
(* bytes.  An ASCII character and its byte are the same token.             *)
(***************************************************************************)
CR == "CR"
Quote == "\""
Backslash == "\\"
\* a character outside ASCII: e with acute accent, U+00E9, two bytes in UTF-8
EAcute == "U+00E9"
EAcuteBytes == <<"0xC3", "0xA9">>
\* the byte 0
NUL == "0x00"
\* in place of a text or a value: the bytes do not decode, the text does
\* not parse, the stream ends inside the frame (the call raises)
Malformed == <<"raise">>

RECURSIVE Str(_)
\* the decimal digits of n >= 0: the {len(content)} of the f-string
Str(n) ==
  IF n < 10 THEN <<Digits[n + 1]>>
  ELSE Str(n \div 10) \o <<Digits[(n % 10) + 1]>>

RECURSIVE Flatten(_)
\* "".join(ss), the halves joined first
Flatten(ss) ==
  IF ss = <<>> THEN <<>>
  ELSE IF Len(ss) = 1 THEN ss[1]
  ELSE Flatten(SubSeq(ss, 1, Len(ss) \div 2))
         \o Flatten(SubSeq(ss, Len(ss) \div 2 + 1, Len(ss)))

\* json.dumps of one character of a string, ensure_ascii on
EscapeChar(c) ==
  IF c = Quote THEN <<Backslash, Quote>>
  ELSE IF c = Backslash THEN <<Backslash, Backslash>>
  ELSE IF c = EAcute THEN <<Backslash, "u", "0", "0", "e", "9">>
  ELSE <<c>>

\* a json.dumps that leaves every character as it is (ensure_ascii off)
DumpStringRaw(str) ==
  <<Quote>>
    \o Flatten([i \in 1..Len(str) |->
                  IF str[i] \in {Quote, Backslash} THEN EscapeChar(str[i])
                  ELSE <<str[i]>>])
    \o <<Quote>>

\* json.dumps of a string
DumpString(str) ==
  <<Quote>> \o Flatten([i \in 1..Len(str) |-> EscapeChar(str[i])])
    \o <<Quote>>

RECURSIVE DumpMembers(_)
\* the members of an object, separated by ", ", key and value by ": "
DumpMembers(ms) ==
  IF ms = <<>> THEN <<>>
  ELSE DumpString(Head(ms)[1]) \o <<":", " ">> \o DumpString(Head(ms)[2])
         \o (IF Len(ms) > 1 THEN <<",", " ">> ELSE <<>>)
         \o DumpMembers(Tail(ms))

\* content = json.dumps(payload)
dumps(payload) == <<"{">> \o DumpMembers(payload) \o <<"}">>

\* message = f"Content-Length: {len(content)}\r\n\r\n{content}"
message(content) ==
  HeaderName \o Str(Len(content)) \o <<CR, NL, CR, NL>> \o content

\* what sys.stdout makes of a text: its UTF-8 bytes
encode(text) ==
  Flatten([i \in 1..Len(text) |->
             IF text[i] = EAcute THEN EAcuteBytes ELSE <<text[i]>>])

\* the bytes LSPStreamIO.send gives to sys.stdout.write for a payload
FrameBytes(payload) == encode(message(dumps(payload)))

\* the bytes are UTF-8: a lead byte has its continuation byte after it, a
\* continuation byte its lead byte before it
IsUtf8(bytes) ==
  \A i \in 1..Len(bytes) :
    /\ bytes[i] = EAcuteBytes[1]
         => i < Len(bytes) /\ bytes[i + 1] = EAcuteBytes[2]
    /\ bytes[i] = EAcuteBytes[2]
         => i > 1 /\ bytes[i - 1] = EAcuteBytes[1]

\* bytes.decode("utf-8"): a character for every byte that begins one;
\* Malformed for bytes that are not UTF-8
decode(bytes) ==
  IF ~IsUtf8(bytes) THEN Malformed
  ELSE SelectSeq([i \in 1..Len(bytes) |->
                    IF bytes[i] = EAcuteBytes[1] THEN EAcute ELSE bytes[i]],
                 LAMBDA c : c # EAcuteBytes[2])

RECURSIVE ParseString(_, _)
\* the JSON string that begins after an opening quote: <<its value, what
\* follows its closing quote>>, Malformed when there is none
ParseString(text, acc) ==
  IF text = <<>> THEN Malformed
  ELSE IF Head(text) = Quote THEN <<acc, Tail(text)>>
  ELSE IF Head(text) = Backslash
  THEN IF Len(text) >= 2 /\ text[2] \in {Quote, Backslash}
       THEN ParseString(SubSeq(text, 3, Len(text)), Append(acc, text[2]))
       ELSE IF Len(text) >= 6
               /\ SubSeq(text, 2, 6) = <<"u", "0", "0", "e", "9">>
       THEN ParseString(SubSeq(text, 7, Len(text)), Append(acc, EAcute))
       ELSE Malformed
  ELSE IF Head(text) \in {NUL, CR, NL} THEN Malformed
  ELSE ParseString(Tail(text), Append(acc, Head(text)))

RECURSIVE ParseMembers(_, _)
\* the members of an object after its "{" (or after a ", "), up to the "}"
\* that ends the text
ParseMembers(text, acc) ==
  IF text = <<>> \/ Head(text) # Quote THEN Malformed
  ELSE LET k == ParseString(Tail(text), <<>>)
       IN IF k = Malformed \/ Len(k[2]) < 3
             \/ SubSeq(k[2], 1, 3) # <<":", " ", Quote>>
          THEN Malformed
          ELSE LET v == ParseString(SubSeq(k[2], 4, Len(k[2])), <<>>)
               IN IF v = Malformed THEN Malformed
                  ELSE IF v[2] = <<"}">> THEN Append(acc, <<k[1], v[1]>>)
                  ELSE IF Len(v[2]) > 2 /\ SubSeq(v[2], 1, 2) = <<",", " ">>
                  THEN ParseMembers(SubSeq(v[2], 3, Len(v[2])),
                                    Append(acc, <<k[1], v[1]>>))
                  ELSE Malformed

\* json.loads of the body text (as far as json.dumps lays objects out)
loads(text) ==
  IF text = Malformed \/ text = <<>> \/ Head(text) # "{" THEN Malformed
  ELSE IF text = <<"{", "}">> THEN <<>>
  ELSE ParseMembers(Tail(text), <<>>)

\* str.strip() of a header line
RECURSIVE strip(_)
strip(line) ==
  IF line = <<>> THEN <<>>
  ELSE IF Head(line) \in {" ", CR, NL} THEN strip(Tail(line))
  ELSE IF line[Len(line)] \in {" ", CR, NL}
  THEN strip(SubSeq(line, 1, Len(line) - 1))
  ELSE line

\* StreamReader.readline(): the bytes up to and with the first line feed,
\* all there is when the stream ends before one
LineEnd(stream) ==
  IF \E i \in 1..Len(stream) : stream[i] = NL
  THEN CHOOSE i \in 1..Len(stream) :
         stream[i] = NL /\ \A j \in 1..(i - 1) : stream[j] # NL
  ELSE Len(stream)

RECURSIVE ReadFrame(_, _)
\* a read_message that returns None where it should raise
ReturnedOrNone(value, rest) ==
  IF value = Malformed
  THEN [kind |-> "None", value |-> <<>>, rest |-> rest]
  ELSE [kind |-> "message", value |-> value, rest |-> rest]

\* what read_message comes to: it returns a message, returns None, or
\* raises; rest is what is left in the stream
Returned(value, rest) ==
  IF value = Malformed
  THEN [kind |-> "raise", value |-> <<>>, rest |-> rest]
  ELSE [kind |-> "message", value |-> value, rest |-> rest]
ReturnedNone(rest) == [kind |-> "None", value |-> <<>>, rest |-> rest]

\* read_message on a stream that ends after the given bytes: the header
\* loop with content_length cl so far, then the body
ReadFrame(stream, cl) ==
  LET n == LineEnd(stream)
      line == decode(SubSeq(stream, 1, n))
      rest == SubSeq(stream, n + 1, Len(stream))
  IN IF line = Malformed THEN Returned(Malformed, rest)
     ELSE IF strip(line) # <<>>
     THEN ReadFrame(rest, IF MatchLength(strip(line)) # <<>>
                          THEN IntOf(MatchLength(strip(line))) ELSE cl)
     ELSE IF cl = None THEN ReturnedNone(rest)
     ELSE IF Len(rest) < cl THEN Returned(Malformed, <<>>)
     ELSE Returned(loads(decode(SubSeq(rest, 1, cl))),
                   SubSeq(rest, cl + 1, Len(rest)))

\* LSPStreamIO.read_message
read_message(stream) == ReadFrame(stream, None)

RECURSIVE Reverse(_)
Reverse(s) == IF s = <<>> THEN <<>> ELSE Append(Reverse(Tail(s)), Head(s))


(***************************************************************************)
(* Inputs.  A message is one decoded frame; a field the method does not    *)
(* use holds its default.  typed = FALSE: params.position.line is not a    *)
(* number (JSON null), so that comparing it raises TypeError; of a         *)
(* didChange: params.contentChanges is empty, so that [0] raises           *)
(* IndexError.  target is params.id of $/cancelGhostText (NoId: absent).   *)
(***************************************************************************)
URIs == {"u1", "u2"}
T1 == <<"a", "b">>
T2 == <<"a", NL, "b">>

\* the document of the completion scenario: a function with an indented,
\* still empty body line and a statement after it
ScenarioLines ==
  <<<<"d", "e", "f", " ", "f", "(", "x", ")", ":">>,
    <<" ", " ", " ", " ">>,
    <<"p", "r", "i", "n", "t", "(", "1", ")">>>>

\* the completion the collaborator gives for its body line
ScenarioAnswer ==
  <<"r", "e", "t", "u", "r", "n", " ", "x", " ", "+", " ", "1">>

\* the request ids the client uses.  The servers copy the id into the
\* response; only EchoLSPServer files a task under the id of its trigger
\* (and cancels by it), so only there a second id is drawn.
Ids(server) == {1}
TriggerIds(server) == IF server = "echo" THEN {1, 2} ELSE {1}

Msg(method, id, uri, text, line, character, typed, target) ==
  [method |-> method, id |-> id, uri |-> uri, text |-> text, line |-> line,
   character |-> character, typed |-> typed, target |-> target]

Plain(method, id) == Msg(method, id, "", <<>>, 0, 0, TRUE, NoId)

Requests(server) ==
  {Plain("initialize", i) : i \in Ids(server)}
    \cup {Plain("shutdown", i) : i \in Ids(server)}
    \cup {Msg("textDocument/hover", i, "u1", <<>>, 0, 0, TRUE, NoId) :
            i \in Ids(server)}

\* <<uri, line, character>>: (0, 0) is in both texts, line 1 only in T2,
\* character 2 of line 0 only in T1
Positions == {<<"u1", 0, 0>>, <<"u1", 1, 0>>, <<"u1", 0, 2>>, <<"u2", 0, 0>>}

Triggers(server) ==
  {Msg("custom/triggerGhostText", i, p[1], <<>>, p[2], p[3], TRUE, NoId) :
     i \in TriggerIds(server), p \in Positions}
    \cup {Msg("custom/triggerGhostText", 1, "u1", <<>>, 0, 0, FALSE, NoId)}

Notifications ==
  {Msg("textDocument/didOpen", NoId, d[1], d[2], 0, 0, TRUE, NoId) :
     d \in {<<"u1", T1>>, <<"u2", T1>>}}
    \cup {Msg("textDocument/didChange", NoId, d[1], d[2], 0, 0, TRUE, NoId) :
            d \in {<<"u1", T2>>, <<"u2", T1>>}}
    \cup {Msg("textDocument/didClose", NoId, u, <<>>, 0, 0, TRUE, NoId) :
            u \in URIs}
    \cup {Plain("initialized", NoId), Plain("exit", NoId)}

\* a method no branch of dispatch_message matches, with and without an id
Unknowns == {Plain("workspace/symbol", i) : i \in {1, NoId}}

CancelRequests(server) ==
  IF server = "echo"
  THEN {Msg("$/cancelGhostText", NoId, "", <<>>, 0, 0, TRUE, t) :
          t \in TriggerIds(server) \cup {NoId}}
  ELSE {Plain("$/cancelGhostText", NoId)}

Messages(server) ==
  Requests(server) \cup Triggers(server) \cup Notifications \cup Unknowns
    \cup CancelRequests(server)

\* one editing session with LLMCoder: a message for every branch of
\* dispatch_message, one document opened and edited, one trigger in it
Session ==
  {Plain("initialize", 1), Plain("shutdown", 1),
   Msg("textDocument/hover", 1, "u1", <<>>, 0, 0, TRUE, NoId),
   Msg("custom/triggerGhostText", 1, "u1", <<>>, 0, 0, TRUE, NoId),
   Msg("textDocument/didOpen", NoId, "u1", T1, 0, 0, TRUE, NoId),
   Msg("textDocument/didChange", NoId, "u1", T2, 0, 0, TRUE, NoId),
   Plain("$/cancelGhostText", NoId), Plain("exit", NoId),
   Plain("workspace/symbol", 1)}

\* messages whose handler raises: a trigger whose line is null, a trigger
\* sent without an id (request["id"] raises KeyError), a didChange without
\* a content change
Faulty ==
  {Msg("custom/triggerGhostText", 1, "u1", <<>>, 0, 0, FALSE, NoId),
   Msg("custom/triggerGhostText", NoId, "u1", <<>>, 0, 0, TRUE, NoId),
   Msg("textDocument/didChange", NoId, "u1", <<>>, 0, 0, FALSE, NoId)}

\* the session with the scenario document beside the small one, a trigger
\* at the end of its body line (line 1, character 4), and the faulty
\* messages
Scenario ==
  Session \cup Faulty \cup
    {Msg("textDocument/didOpen", NoId, "u1", Join(ScenarioLines), 0, 0, TRUE,
         NoId),
     Msg("custom/triggerGhostText", 1, "u1", <<>>, 1, 4, TRUE, NoId)}

\* the client of EchoLSPServer: two documents opened, one of them edited and
\* closed, well-formed triggers under two ids at the start of either
SessionEcho ==
  {m \in Messages("echo") :
     /\ m.typed /\ m.line = 0 /\ m.character = 0
     /\ m.method # "initialized"
     /\ m.method \in {"textDocument/didChange", "textDocument/didClose"}
          => m.uri = "u1"
     /\ m.method = "workspace/symbol" => m.id # NoId}

\* header blocks without a usable Content-Length: `Content-Length: abc`,
\* and a block that only has another header
BadHeaders ==
  {<<HeaderName \o <<"a", "b", "c">>>>,
   <<<<"X", ":", " ", "1">>>>}

\* the payloads handed to send: the empty object, members whose text is
\* ASCII, has a two-byte character, a quote to escape, and two members
Payloads ==
  {<<>>,
   <<<<<<"t">>, <<"a">>>>>>,
   <<<<<<"t">>, <<EAcute>>>>>>,
   <<<<<<"t">>, <<"a", Quote>>>>>>,
   <<<<<<"t">>, <<EAcute, "a">>>>, <<<<"k">>, <<>>>>>>}

\* the messages the client writes to stdin as frames: a document is opened,
\* a trigger at its start, exit
StdinMessages ==
  {Msg("textDocument/didOpen", NoId, "u1", T1, 0, 0, TRUE, NoId),
   Msg("custom/triggerGhostText", 1, "u1", <<>>, 0, 0, TRUE, NoId),
   Plain("exit", NoId)}

\* the body of the frame for message m, as an object of string members
\* (the nesting under params is left out, a number is written as its
\* digits); a name, of a method, a member or a document, is one character
\* of the text
Wire(m) ==
  <<<<<<"method">>, <<m.method>>>>>>
    \o (IF m.id # NoId THEN <<<<<<"id">>, Str(m.id)>>>> ELSE <<>>)
    \o (IF m.uri # "" THEN <<<<<<"uri">>, <<m.uri>>>>>> ELSE <<>>)
    \o (IF m.method = "textDocument/didOpen"
        THEN <<<<<<"text">>, m.text>>>> ELSE <<>>)
    \o (IF m.method = "custom/triggerGhostText"
        THEN <<<<<<"line">>, Str(m.line)>>,
               <<<<"character">>, Str(m.character)>>>>
        ELSE <<>>)

\* the message the handlers see in what json.loads returned: a member
\* that is absent has the default of Msg
MessageOf(payload) ==
  LET Member(key, default) ==
        IF \E i \in 1..Len(payload) : payload[i][1] = <<key>>
        THEN payload[CHOOSE i \in 1..Len(payload) : payload[i][1] = <<key>>][2]
        ELSE default
  IN Msg(Member("method", <<"">>)[1], IntOf(Member("id", <<>>)),
         Member("uri", <<"">>)[1], Member("text", <<>>),
         IntOf(Member("line", <<"0">>)), IntOf(Member("character", <<"0">>)),
         TRUE, NoId)

\* frames whose body json.loads rejects: `{`, `x`, an empty body under
\* Content-Length: 0, and a body that is not UTF-8
BadFrames ==
  {encode(message(<<"{">>)), encode(message(<<"x">>)), encode(message(<<>>)),
   HeaderName \o <<"1", CR, NL, CR, NL, EAcuteBytes[2]>>}

\* what the client writes before it closes the stream: at most MaxMsgs
\* frames, well-formed ones and bad ones in any order, the last of them
\* possibly cut off in its header block or in its body
Streams ==
  LET frames == {FrameBytes(Wire(m)) : m \in StdinMessages} \cup BadFrames
      cut == {HeaderName \o <<"5">>,
              HeaderName \o <<"5", CR, NL, CR, NL, "{">>}
      whole(n) == UNION {{Flatten(fs) : fs \in [1..k -> frames]} : k \in 0..n}
  IN whole(MaxMsgs) \cup {w \o c : w \in whole(MaxMsgs - 1), c \in cut}

\* read_message on each of these streams, worked out once.  What a read
\* leaves of one of them is again one of them.
ReadOf == [s \in Streams |-> read_message(s)]

\* what the collaborator of LLMCoder can answer: a status of 200 with a text
\* of one line, of two lines, or none; another status; no response
ApiResults ==
  {[kind |-> "ok", text |-> t] :
     t \in {<<"x">>, <<"a">>, <<"x", NL, "y">>, ScenarioAnswer}}
    \cup {[kind |-> k, text |-> <<>>] : k \in {"status", "error", "empty"}}

NoResult == [kind |-> "none", text |-> <<>>]

\* str(request["id"])
IdStr(i) == IF i = 1 THEN "1" ELSE IF i = 2 THEN "2" ELSE "None"

(***************************************************************************)
(* Frames written to stdout.                                               *)
(***************************************************************************)
Frame(type, id, kind, val, code, uri, line, text) ==
  [type |-> type, id |-> id, kind |-> kind, val |-> val, code |-> code,
   uri |-> uri, line |-> line, text |-> text]

Result(id, val, text) == Frame("response", id, "result", val, 0, "", 0, text)
ErrorResponse(id) ==
  Frame("response", id, "error", "Internal server error", InternalError,
        "", 0, <<>>)
GhostNotification(uri, line, text) ==
  Frame("notification", NoId, "ghostText/virtualText", "", 0, uri, line, text)

(***************************************************************************)
(* State.                                                                  *)
(***************************************************************************)
VARIABLES
  impl,            \* "llm": LLMCoder runs; "echo": EchoLSPServer runs
  running,         \* self.running
  initialized,     \* self.initialized
  document_store,  \* self.document_store: uri -> lines
  active_tasks,    \* self.active_tasks: the tracked completion tasks
  uri_tasks,       \* EchoLSPServer.uri_tasks: uri -> set of tasks
  request_tasks,   \* EchoLSPServer.request_tasks: request id -> task
  runpc,           \* run(): "reading" (suspended in read_message) | "done"
  nread,           \* header blocks read so far; the message of block n has
                   \* dispatch task n
  dtask,           \* the dispatch tasks that have not ended:
                   \* n -> [msg, pc, sent, stale]
  finished,        \* (history) what each ended dispatch task was given and
                   \* wrote: [method, id, sent, how]
  gtask,           \* completion tasks, named by the dispatch task that
                   \* spawned them: n -> [uri, line, suffix, ..., emitted]
  ready,           \* the event loop's FIFO of ready handles
  jobs,            \* writes handed to the executor, not yet finished
  stdout,          \* sys.stdout as a byte stream: [pending, pipe], the
                   \* bytes written and not yet flushed, and the bytes the
                   \* client can read
  writers,         \* the calls of send, in the order they were made:
                   \* [payload, st, raced, seq]
  peer,            \* the reader at the other end of the pipe: [pos, got],
                   \* the bytes it has consumed and what read_message gave
  stdin,           \* sys.stdin as a byte stream: what the client has written
                   \* up to its end-of-stream and read_message has not consumed
  trim             \* one call of remove_suffix taken alone: [text, suffix,
                   \* out], out = <<the text returned>> once it has returned

\* the byte streams with their ends and the call taken alone: what the
\* handlers of a decoded message leave as it is
iovars == <<stdout, writers, peer, stdin, trim>>

vars == <<impl, running, initialized, document_store, active_tasks,
          uri_tasks, request_tasks, runpc, nread, dtask, finished, gtask,
          ready, jobs, stdout, writers, peer, stdin, trim>>

D(n) == <<"d", n>>
G(n) == <<"g", n>>
Step(t) == [k |-> "step", t |-> t]
Fut(t) == [k |-> "fut", t |-> t]
Cb(t) == [k |-> "cb", t |-> t]

\* a create_task that runs the new task before everything already queued
create_task_first(rdy, t) == <<Step(t)>> \o rdy

\* asyncio.create_task: the first step of the new task is queued behind the
\* handles that are ready (loop.call_soon)
create_task(rdy, t) == Append(rdy, Step(t))

InReady(h) == \E i \in 1..Len(ready) : ready[i] = h

\* asyncio.Task.done()
Done(g) == gtask[g].pc = "done"

\* the tracked tasks that are not yet terminal
Live == {g \in active_tasks : ~Done(g)}

\* the fields after construction, nothing written to stdout yet
Fields(server) ==
  /\ impl = server
  /\ running = TRUE
  /\ initialized = FALSE
  /\ document_store = <<>>
  /\ active_tasks = {}
  /\ uri_tasks = <<>>
  /\ request_tasks = <<>>
  /\ runpc = "reading"
  /\ nread = 0
  /\ dtask = <<>>
  /\ finished = {}
  /\ gtask = <<>>
  /\ ready = <<>>
  /\ jobs = {}
  /\ stdout = [pending |-> <<>>, pipe |-> <<>>]
  /\ writers = <<>>
  /\ peer = [pos |-> 0, got |-> <<>>]

\* remove_suffix not called
NoCall == [text |-> <<>>, suffix |-> <<>>, out |-> <<>>]

\* the server started on a client that has written nothing yet
InitWith(server) ==
  /\ Fields(server)
  /\ stdin = <<>>
  /\ trim = NoCall

\* LLMCoder.__init__
Init == InitWith("llm")
\* EchoLSPServer.__init__
InitEcho == InitWith("echo")

(***************************************************************************)
(* The task registry.                                                      *)
(***************************************************************************)
\* the tasks of C that cancel_* calls Task.cancel() on: `if not task.done()`
Cancellable(C) == {g \in C : ~Done(g)}

\* list(set): the order of iteration over a set of tasks is not specified
Orders(C) ==
  {s \in [1..Cardinality(C) -> C] :
     \A i, j \in 1..Cardinality(C) : i # j => s[i] # s[j]}

\* Task.cancel() on the tasks of C: CancelledError is thrown into the task
\* at its next step
Signalled(gt, C) ==
  [g \in DOMAIN gt |->
     IF g \in C THEN [gt[g] EXCEPT !.cancel = TRUE, !.signalled = TRUE]
     ELSE gt[g]]

\* the wake-ups cancel() schedules: one for each task that waits on a
\* future which is still pending (a task with a step already in the queue
\* only has its _must_cancel set)
Wakes(rdy, ord) ==
  SelectSeq([i \in 1..Len(ord) |-> Step(G(ord[i]))],
            LAMBDA h : ~ \E i \in 1..Len(rdy) : rdy[i] = h)

\* cancelling the future of run_in_executor cancels the write only when no
\* thread has started it
Unstarted(C) ==
  {j \in jobs : j.st = "queued" /\ \E g \in C : j.owner = G(g)}

\* cancel() on every task of C that is not done; gt is gtask (with this
\* step's history marks), rdy the ready queue, and sends the writes this
\* step hands to the executor
CancelTasks(gt, C, rdy, sends) ==
  \E ord \in Orders(Cancellable(C)) :
    /\ gtask' = Signalled(gt, Cancellable(C))
    /\ ready' = rdy \o Wakes(rdy, ord)
    /\ jobs' = (jobs \ Unstarted(Cancellable(C))) \cup sends

\* a cancel_all_tasks that calls cancel() on no task
cancel_no_tasks(rdy, sends) ==
  /\ gtask' = gtask
  /\ ready' = rdy
  /\ jobs' = jobs \cup sends

\* cancel_all_tasks
cancel_all_tasks(rdy, sends) == CancelTasks(gtask, active_tasks, rdy, sends)

\* EchoLSPServer.cancel_tasks_for_uri
cancel_tasks_for_uri(uri, rdy, sends) ==
  CancelTasks(gtask, IF uri \in DOMAIN uri_tasks THEN uri_tasks[uri] ELSE {},
              rdy, sends)

\* EchoLSPServer.cancel_task_by_request_id
cancel_task_by_request_id(rid, rdy, sends) ==
  CancelTasks(gtask, IF rid \in DOMAIN request_tasks
                     THEN {request_tasks[rid]} ELSE {}, rdy, sends)

\* a step that cancels nothing
NoCancel(rdy, sends) ==
  /\ gtask' = gtask
  /\ ready' = rdy
  /\ jobs' = jobs \cup sends

\* LSPStreamIO.send / EchoLSPServer.send_response: the write is handed to
\* the executor and the caller is suspended.  Nothing cancels a dispatch
\* task, so whether a thread has taken its write makes no difference: it
\* counts as taken at once.
SendJob(owner, frame) ==
  [owner |-> owner, frame |-> frame,
   st |-> IF owner[1] = "d" THEN "running" ELSE "queued"]

(***************************************************************************)
(* run(): the read loop.                                                   *)
(***************************************************************************)
IsTrigger(m) == m.method = "custom/triggerGhostText"

\* (history) a didChange is read for the document of a trigger whose
\* handler has not ended
MarkStale(m) ==
  [d \in DOMAIN dtask |->
     IF /\ m.method = "textDocument/didChange"
        /\ IsTrigger(dtask[d].msg)
        /\ dtask[d].msg.uri = m.uri
     THEN [dtask[d] EXCEPT !.stale = TRUE]
     ELSE dtask[d]]

\* (history) a didChange is read for the document of a task the
\* collaborator has not answered yet
MarkStaleTasks(m) ==
  [g \in DOMAIN gtask |->
     IF /\ m.method = "textDocument/didChange"
        /\ gtask[g].uri = m.uri
        /\ gtask[g].pc \in {"new", "api"}
        /\ gtask[g].res = NoResult
     THEN [gtask[g] EXCEPT !.stale = TRUE]
     ELSE gtask[g]]

\* a run that awaits the handler of each message before it reads again
AwaitingReadIdle == runpc = "reading" /\ dtask = <<>>

\* run is suspended in `await self.io.read_message()`: the handlers are
\* tasks of their own, run waits for none of them
AwaitingRead == runpc = "reading"

\* read_message returns a message: it gets a dispatch task of its own, and
\* the loop tests self.running before it reads again
Dispatch(m) ==
  /\ nread' = nread + 1
  /\ dtask' = [d \in DOMAIN dtask \cup {nread + 1} |->
                  IF d = nread + 1
                  THEN [msg |-> m, pc |-> "new", sent |-> <<>>,
                        stale |-> FALSE]
                  ELSE MarkStale(m)[d]]
  /\ IF running
     THEN /\ runpc' = "reading"
          /\ CancelTasks(MarkStaleTasks(m), {},
                         create_task(ready, D(nread + 1)), {})
     ELSE /\ runpc' = "done"
          /\ CancelTasks(MarkStaleTasks(m), active_tasks,
                         create_task(ready, D(nread + 1)), {})
  /\ UNCHANGED <<impl, running, initialized, document_store, active_tasks,
                 uri_tasks, request_tasks, finished>>

\* one iteration of the loop for a decoded message m
RunRead(m) ==
  /\ AwaitingRead
  /\ nread < MaxMsgs
  /\ Dispatch(m)
  /\ UNCHANGED iovars

\* read_message returns None at the end of the stream: break, clean up
RunEOF ==
  /\ AwaitingRead
  /\ runpc' = "done"
  /\ cancel_all_tasks(ready, {})
  /\ UNCHANGED iovars
  /\ UNCHANGED <<impl, running, initialized, document_store, active_tasks,
                 uri_tasks, request_tasks, nread, dtask, finished>>

\* read_message finds no Content-Length in the header block h and returns
\* None, which run takes for the end of the stream: break, clean up
RunNoLength(h) ==
  /\ AwaitingRead
  /\ nread < MaxMsgs
  /\ HeaderLength(h, None) = None
  /\ nread' = nread + 1
  /\ runpc' = "done"
  /\ cancel_all_tasks(ready, {})
  /\ UNCHANGED iovars
  /\ UNCHANGED <<impl, running, initialized, document_store, active_tasks,
                 uri_tasks, request_tasks, dtask, finished>>

\* one iteration of the loop on the bytes of stdin: read_message returns a
\* message, which is dispatched; or it returns None (no Content-Length, or
\* the end of the stream), and run breaks and cleans up; or it raises
\* (json.loads, decode, readexactly at the end of the stream), and run
\* logs the error and tests self.running before it reads again
RunStream ==
  /\ AwaitingRead
  /\ stdin = <<>> \/ nread < MaxMsgs
  /\ LET r == ReadOf[stdin]
     IN /\ stdin' = r.rest
        /\ IF r.kind = "message" THEN Dispatch(MessageOf(r.value))
           ELSE /\ nread' = IF stdin = <<>> THEN nread ELSE nread + 1
                /\ IF r.kind = "raise" /\ running
                   THEN runpc' = "reading" /\ NoCancel(ready, {})
                   ELSE runpc' = "done" /\ cancel_all_tasks(ready, {})
                /\ UNCHANGED <<impl, running, initialized, document_store,
                               active_tasks, uri_tasks, request_tasks, dtask,
                               finished>>
  /\ UNCHANGED <<stdout, writers, peer, trim>>

(***************************************************************************)
(* dispatch_message: one task per message.  A handler runs from the head   *)
(* of the ready queue up to its next await.                                *)
(***************************************************************************)
\* dispatch task d is at the head of the queue and has not started
Starts(d, method) ==
  /\ ready # <<>>
  /\ Head(ready) = Step(D(d))
  /\ d \in DOMAIN dtask
  /\ dtask[d].pc = "new"
  /\ dtask[d].msg.method = method

\* dispatch task d is at the head of the queue, woken from the await pc
Resumes(d, pc) ==
  /\ ready # <<>>
  /\ Head(ready) = Step(D(d))
  /\ d \in DOMAIN dtask
  /\ dtask[d].pc = pc

\* the handler of dispatch task d is suspended in the await pc
Goes(d, pc) ==
  /\ dtask' = [dtask EXCEPT ![d].pc = pc]
  /\ finished' = finished

\* dispatch_message returns: the task ends.  (history) how is the way a
\* trigger handler ended, "raised" after the except branch, "" else.
EndsAs(d, how) ==
  /\ dtask' = [e \in DOMAIN dtask \ {d} |-> dtask[e]]
  /\ finished' = finished \cup
       {[method |-> dtask[d].msg.method, id |-> dtask[d].msg.id,
         sent |-> dtask[d].sent, how |-> how]}

Ends(d) == EndsAs(d, "")

\* an except branch that writes nothing and lets the task end
RaiseSilently(d) ==
  /\ EndsAs(d, "raised")
  /\ NoCancel(Tail(ready), {})

\* the except branch of dispatch_message: an error response when the
\* message has an id
Raise(d) ==
  IF dtask[d].msg.id # NoId
  THEN /\ Goes(d, "w_err")
       /\ NoCancel(Tail(ready), {SendJob(D(d), ErrorResponse(dtask[d].msg.id))})
  ELSE /\ EndsAs(d, "raised")
       /\ NoCancel(Tail(ready), {})

\* handle_initialize up to the await of send_response
HandleInitialize(d) ==
  /\ Starts(d, "initialize")
  /\ Goes(d, "w_init")
  /\ NoCancel(Tail(ready),
              {SendJob(D(d), Result(dtask[d].msg.id, "capabilities", <<>>))})
  /\ UNCHANGED iovars
  /\ UNCHANGED <<impl, running, initialized, document_store, active_tasks,
                 uri_tasks, request_tasks, runpc, nread>>

\* handle_initialize after the await
InitializeResume(d) ==
  /\ Resumes(d, "w_init")
  /\ initialized' = TRUE
  /\ Ends(d)
  /\ NoCancel(Tail(ready), {})
  /\ UNCHANGED iovars
  /\ UNCHANGED <<impl, running, document_store, active_tasks, uri_tasks,
                 request_tasks, runpc, nread>>

\* the result of handle_hover
HoverResult(m) ==
  IF /\ m.uri \in DOMAIN document_store
     /\ 0 <= m.line
     /\ m.line < Len(document_store[m.uri])
  THEN Result(m.id, "hover", document_store[m.uri][m.line + 1])
  ELSE Result(m.id, "null", <<>>)

\* handle_hover up to the await of send_response
HandleHover(d) ==
  /\ Starts(d, "textDocument/hover")
  /\ Goes(d, "w_resp")
  /\ NoCancel(Tail(ready), {SendJob(D(d), HoverResult(dtask[d].msg))})
  /\ UNCHANGED iovars
  /\ UNCHANGED <<impl, running, initialized, document_store, active_tasks,
                 uri_tasks, request_tasks, runpc, nread>>

\* a handler returns after its last send_response
ResponseWritten(d) ==
  /\ \/ Resumes(d, "w_resp")
     \/ Resumes(d, "w_err")
  /\ EndsAs(d, IF dtask[d].pc = "w_err" THEN "raised" ELSE "")
  /\ NoCancel(Tail(ready), {})
  /\ UNCHANGED iovars
  /\ UNCHANGED <<impl, running, initialized, document_store, active_tasks,
                 uri_tasks, request_tasks, runpc, nread>>

\* handle_trigger_ghost_text up to the await of the acknowledgement;
\* request["id"] raises KeyError when the trigger has no id
HandleTrigger(d) ==
  /\ Starts(d, "custom/triggerGhostText")
  /\ IF dtask[d].msg.id = NoId
     THEN Raise(d)
     ELSE /\ Goes(d, "w_ack")
          /\ NoCancel(Tail(ready),
                      {SendJob(D(d), Result(dtask[d].msg.id, "ack", <<>>))})
  /\ UNCHANGED iovars
  /\ UNCHANGED <<impl, running, initialized, document_store, active_tasks,
                 uri_tasks, request_tasks, runpc, nread>>

\* a single-flight test that never finds the registry busy
SingleFlightNever == FALSE

\* LLMCoder: `if len(self.active_tasks) > 0` (EchoLSPServer has no such test)
SingleFlightBusy == Cardinality(active_tasks) > 0

\* full_prompt of LLMCoder; the argument of query_external_api in
\* EchoLSPServer is the line
Prompt(lines, m) ==
  IF impl = "llm"
  THEN <<"<|fim_prefix|>", NL>> \o PrefixOf(lines, m.line, m.character)
         \o <<"<|fim_suffix|>">> \o SuffixOf(lines, m.line, m.character)
         \o <<NL, "<|fim_middle|>">>
  ELSE lines[m.line + 1]

\* the task asyncio.create_task(ghost_text_task()) creates, with what its
\* closure holds
NewTask(lines, m, stale) ==
  [uri |-> m.uri, line |-> m.line,
   suffix |-> IF impl = "llm" THEN SuffixOf(lines, m.line, m.character)
              ELSE <<>>,
   prompt |-> Prompt(lines, m),
   rid |-> IdStr(m.id),
   pc |-> "new", res |-> NoResult, cancel |-> FALSE, signalled |-> FALSE,
   stale |-> stale, emitted |-> <<>>]

\* an add_task that files the task nowhere
AddTaskNowhere(g, uri, rid) ==
  UNCHANGED <<active_tasks, uri_tasks, request_tasks>>

\* add_task: EchoLSPServer also files the task under its uri and request id
\* (uri and request_id are non-empty strings here)
AddTask(g, uri, rid) ==
  /\ active_tasks' = active_tasks \cup {g}
  /\ IF impl = "echo"
     THEN /\ uri_tasks' =
               [u \in DOMAIN uri_tasks \cup {uri} |->
                  IF u = uri
                  THEN (IF u \in DOMAIN uri_tasks THEN uri_tasks[u] ELSE {})
                         \cup {g}
                  ELSE uri_tasks[u]]
          /\ request_tasks' =
               [r \in DOMAIN request_tasks \cup {rid} |->
                  IF r = rid THEN g ELSE request_tasks[r]]
     ELSE UNCHANGED <<uri_tasks, request_tasks>>

\* the trigger returns without a task
Discard(d, how) ==
  /\ EndsAs(d, how)
  /\ NoCancel(Tail(ready), {})
  /\ UNCHANGED <<active_tasks, uri_tasks, request_tasks>>

\* a character test that lets every position pass
CharacterAnywhere(lines, m) == TRUE

\* `0 <= character <= len(original)`, original the line of the position
CharacterInRange(lines, m) ==
  0 <= m.character /\ m.character <= Len(lines[m.line + 1])

\* handle_trigger_ghost_text after the acknowledgement: the checks against
\* the document store as it is now, then create_task and add_task (no await
\* in between)
TriggerResume(d) ==
  /\ Resumes(d, "w_ack")
  /\ LET m == dtask[d].msg
         lines == document_store[m.uri]
     IN IF m.uri \notin DOMAIN document_store
        THEN Discard(d, "no document")
        ELSE IF ~m.typed
        THEN Raise(d) /\ UNCHANGED <<active_tasks, uri_tasks, request_tasks>>
        ELSE IF ~(0 <= m.line /\ m.line < Len(lines))
        THEN Discard(d, "line out of range")
        ELSE IF impl = "llm" /\ SingleFlightBusy
        THEN Discard(d, "busy")
        ELSE IF impl = "llm" /\ ~CharacterInRange(lines, m)
        THEN Discard(d, "character out of range")
        ELSE /\ EndsAs(d, "spawned")
             /\ gtask' = [g \in DOMAIN gtask \cup {d} |->
                            IF g = d THEN NewTask(lines, m, dtask[d].stale)
                            ELSE gtask[g]]
             /\ ready' = create_task(Tail(ready), G(d))
             /\ jobs' = jobs
             /\ AddTask(d, m.uri, IdStr(m.id))
  /\ UNCHANGED iovars
  /\ UNCHANGED <<impl, running, initialized, document_store, runpc, nread>>

\* the document store after a notification
StoreAfter(m) ==
  IF m.method \in {"textDocument/didOpen", "textDocument/didChange"}
  THEN [u \in DOMAIN document_store \cup {m.uri} |->
          IF u = m.uri THEN SplitLines(m.text) ELSE document_store[u]]
  ELSE IF m.method = "textDocument/didClose"
  THEN [u \in DOMAIN document_store \ {m.uri} |-> document_store[u]]
  ELSE document_store

\* handle_notification: no await, the handler runs to its end (or raises
\* before it has changed anything)
HandleNotification(d) ==
  /\ \/ Starts(d, "initialized")
     \/ Starts(d, "textDocument/didOpen")
     \/ Starts(d, "textDocument/didChange")
     \/ Starts(d, "textDocument/didClose")
  /\ LET m == dtask[d].msg
     IN IF ~m.typed
        THEN /\ Raise(d)
             /\ UNCHANGED <<initialized, document_store>>
        ELSE /\ initialized' = (initialized \/ m.method = "initialized")
             /\ document_store' = StoreAfter(m)
             /\ IF m.method = "textDocument/didChange"
                THEN IF impl = "llm"
                     THEN cancel_all_tasks(Tail(ready), {})
                     ELSE cancel_tasks_for_uri(m.uri, Tail(ready), {})
                ELSE IF m.method = "textDocument/didClose" /\ impl = "echo"
                THEN cancel_tasks_for_uri(m.uri, Tail(ready), {})
                ELSE NoCancel(Tail(ready), {})
             /\ Ends(d)
  /\ UNCHANGED iovars
  /\ UNCHANGED <<impl, running, active_tasks, uri_tasks, request_tasks,
                 runpc, nread>>

\* handle_cancel_request
HandleCancelRequest(d) ==
  /\ Starts(d, "$/cancelGhostText")
  /\ IF impl = "echo" /\ dtask[d].msg.target # NoId
     THEN cancel_task_by_request_id(IdStr(dtask[d].msg.target),
                                    Tail(ready), {})
     ELSE cancel_all_tasks(Tail(ready), {})
  /\ Ends(d)
  /\ UNCHANGED iovars
  /\ UNCHANGED <<impl, running, initialized, document_store, active_tasks,
                 uri_tasks, request_tasks, runpc, nread>>

\* the shutdown branch: LLMCoder's send_response is commented out
HandleShutdown(d) ==
  /\ Starts(d, "shutdown")
  /\ IF impl = "echo"
     THEN /\ cancel_all_tasks(Tail(ready),
               {SendJob(D(d), Result(dtask[d].msg.id, "null", <<>>))})
          /\ Goes(d, "w_resp")
     ELSE /\ cancel_all_tasks(Tail(ready), {})
          /\ Ends(d)
  /\ UNCHANGED iovars
  /\ UNCHANGED <<impl, running, initialized, document_store, active_tasks,
                 uri_tasks, request_tasks, runpc, nread>>

\* the exit branch
HandleExit(d) ==
  /\ Starts(d, "exit")
  /\ running' = FALSE
  /\ Ends(d)
  /\ NoCancel(Tail(ready), {})
  /\ UNCHANGED iovars
  /\ UNCHANGED <<impl, initialized, document_store, active_tasks, uri_tasks,
                 request_tasks, runpc, nread>>

\* the methods dispatch_message has a branch for
KnownMethods ==
  {"initialize", "textDocument/hover", "custom/triggerGhostText",
   "initialized", "textDocument/didOpen", "textDocument/didChange",
   "textDocument/didClose", "$/cancelGhostText", "shutdown", "exit"}

\* no branch matches: the if/elif chain has no else
HandleUnknown(d) ==
  /\ ready # <<>>
  /\ Head(ready) = Step(D(d))
  /\ d \in DOMAIN dtask
  /\ dtask[d].pc = "new"
  /\ dtask[d].msg.method \notin KnownMethods
  /\ Ends(d)
  /\ NoCancel(Tail(ready), {})
  /\ UNCHANGED iovars
  /\ UNCHANGED <<impl, running, initialized, document_store, active_tasks,
                 uri_tasks, request_tasks, runpc, nread>>

(***************************************************************************)
(* ghost_text_task: the completion task.                                   *)
(***************************************************************************)
GhostAtHead(g) ==
  /\ ready # <<>>
  /\ Head(ready) = Step(G(g))
  /\ g \in DOMAIN gtask

\* the task ends (returns or raises): its done-callbacks are scheduled
Finish(g) ==
  /\ gtask' = [gtask EXCEPT ![g].pc = "done", ![g].cancel = FALSE]
  /\ ready' = Append(Tail(ready), Cb(G(g)))
  /\ jobs' = jobs

\* the step of a task cancel() was called on: CancelledError is thrown at
\* the await the task is suspended in (or before its first statement), the
\* except clauses re-raise it and the task ends cancelled
GhostCancelled(g) ==
  /\ GhostAtHead(g)
  /\ gtask[g].pc # "done"
  /\ gtask[g].cancel
  /\ Finish(g)
  /\ UNCHANGED iovars
  /\ UNCHANGED <<impl, running, initialized, document_store, active_tasks,
                 uri_tasks, request_tasks, runpc, nread, dtask, finished>>

\* the first step: query_external_api up to the await of the collaborator
\* (client.post of LLMCoder, asyncio.sleep of EchoLSPServer)
GhostStart(g) ==
  /\ GhostAtHead(g)
  /\ gtask[g].pc = "new"
  /\ ~gtask[g].cancel
  /\ gtask' = [gtask EXCEPT ![g].pc = "api"]
  /\ ready' = Tail(ready)
  /\ UNCHANGED iovars
  /\ UNCHANGED <<impl, running, initialized, document_store, active_tasks,
                 uri_tasks, request_tasks, runpc, nread, dtask, finished, jobs>>

\* a query_external_api that takes every answer for a success
ApiNeverFailed(r) == FALSE

\* what query_external_api returns: False for a status that
\* raise_for_status rejects, for an exception and for an empty body
ApiFailed(r) == r.kind # "ok" \/ r.text = <<>>

\* the text of the notification
GhostText(g) ==
  IF impl = "llm"
  THEN remove_suffix(gtask[g].res.text, gtask[g].suffix)
  ELSE <<"GHOST ">> \o gtask[g].res.text

\* the collaborator has answered: the task returns on a failure, and else
\* sends the notification and is suspended in its write
GhostApiReturn(g) ==
  /\ GhostAtHead(g)
  /\ gtask[g].pc = "api"
  /\ ~gtask[g].cancel
  /\ IF impl = "llm" /\ ApiFailed(gtask[g].res)
     THEN Finish(g)
     ELSE /\ gtask' = [gtask EXCEPT ![g].pc = "write"]
          /\ ready' = Tail(ready)
          /\ jobs' = jobs \cup
               {SendJob(G(g), GhostNotification(gtask[g].uri, gtask[g].line,
                                                GhostText(g)))}
  /\ UNCHANGED iovars
  /\ UNCHANGED <<impl, running, initialized, document_store, active_tasks,
                 uri_tasks, request_tasks, runpc, nread, dtask, finished>>

\* the write of the notification has returned: the task ends
GhostWritten(g) ==
  /\ GhostAtHead(g)
  /\ gtask[g].pc = "write"
  /\ ~gtask[g].cancel
  /\ Finish(g)
  /\ UNCHANGED iovars
  /\ UNCHANGED <<impl, running, initialized, document_store, active_tasks,
                 uri_tasks, request_tasks, runpc, nread, dtask, finished>>

\* a done-callback that leaves the registry as it is
DiscardedNothing(g) == active_tasks

\* self.active_tasks.discard(task_obj)
Discarded(g) == active_tasks \ {g}

\* cleanup_task, the done-callback add_task registers
DoneCallback(g) ==
  /\ ready # <<>>
  /\ Head(ready) = Cb(G(g))
  /\ ready' = Tail(ready)
  /\ active_tasks' = Discarded(g)
  /\ IF impl = "echo"
     THEN LET uri == gtask[g].uri
              rid == gtask[g].rid
              left == uri_tasks[uri] \ {g}
          IN /\ uri_tasks' =
                  IF uri \in DOMAIN uri_tasks
                  THEN (IF left = {}
                        THEN [u \in DOMAIN uri_tasks \ {uri} |-> uri_tasks[u]]
                        ELSE [uri_tasks EXCEPT ![uri] = left])
                  ELSE uri_tasks
             /\ request_tasks' =
                  [r \in DOMAIN request_tasks \ {rid} |-> request_tasks[r]]
     ELSE UNCHANGED <<uri_tasks, request_tasks>>
  /\ UNCHANGED iovars
  /\ UNCHANGED <<impl, running, initialized, document_store, runpc, nread,
                 dtask, finished, gtask, jobs>>

(***************************************************************************)
(* Outside the loop thread.                                                *)
(***************************************************************************)
\* what the collaborator can answer to the task
Answers(g) ==
  IF impl = "llm" THEN ApiResults
  ELSE {[kind |-> "ok", text |-> <<"Processed: ">> \o Reverse(gtask[g].prompt)]}

\* the collaborator answers (the HTTP response or the timeout of LLMCoder,
\* the timer of EchoLSPServer): the task is woken with the result
CollaboratorRespond(g, r) ==
  /\ g \in DOMAIN gtask
  /\ gtask[g].pc = "api"
  /\ gtask[g].res = NoResult
  /\ ~gtask[g].cancel
  /\ r \in Answers(g)
  /\ gtask' = [gtask EXCEPT ![g].res = r]
  /\ ready' = Append(ready, Step(G(g)))
  /\ UNCHANGED iovars
  /\ UNCHANGED <<impl, running, initialized, document_store, active_tasks,
                 uri_tasks, request_tasks, runpc, nread, dtask, finished, jobs>>

\* an executor thread takes a write: from here on it cannot be cancelled
ThreadStart(j) ==
  /\ j \in jobs
  /\ j.st = "queued"
  /\ jobs' = (jobs \ {j}) \cup {[j EXCEPT !.st = "running"]}
  /\ UNCHANGED iovars
  /\ UNCHANGED <<impl, running, initialized, document_store, active_tasks,
                 uri_tasks, request_tasks, runpc, nread, dtask, finished, gtask,
                 ready>>

\* sys.stdout.write(message) returns in the thread: the frame is written,
\* and the completion of the future is handed to the loop
ThreadFinish(j) ==
  /\ j \in jobs
  /\ j.st = "running"
  /\ jobs' = jobs \ {j}
  /\ ready' = Append(ready, Fut(j.owner))
  /\ IF j.owner[1] = "d"
     THEN /\ dtask' = [dtask EXCEPT ![j.owner[2]].sent = Append(@, j.frame)]
          /\ gtask' = gtask
     ELSE /\ gtask' = [gtask EXCEPT ![j.owner[2]].emitted = Append(@, j.frame)]
          /\ dtask' = dtask
  /\ UNCHANGED iovars
  /\ UNCHANGED <<impl, running, initialized, document_store, active_tasks,
                 uri_tasks, request_tasks, runpc, nread, finished>>

\* the loop completes the future of run_in_executor: the task waiting on it
\* is woken, unless the future was cancelled meanwhile
FutureDone(t) ==
  /\ ready # <<>>
  /\ Head(ready) = Fut(t)
  /\ ready' =
       IF \/ t[1] = "d"
          \/ (gtask[t[2]].pc = "write" /\ ~gtask[t[2]].cancel)
       THEN Append(Tail(ready), Step(t))
       ELSE Tail(ready)
  /\ UNCHANGED iovars
  /\ UNCHANGED <<impl, running, initialized, document_store, active_tasks,
                 uri_tasks, request_tasks, runpc, nread, dtask, finished, gtask,
                 jobs>>

(***************************************************************************)
(* The byte stream of stdout.  Here the callers of send are handlers of    *)
(* no particular message: what matters is that each call hands its         *)
(* sys.stdout.write to a thread of the executor and that several handlers  *)
(* can be suspended in send at once (jobs above).  sys.stdout is a         *)
(* TextIOWrapper, which takes no lock of its own: two write calls that     *)
(* run at the same time race on its buffer.                                *)
(***************************************************************************)
\* the fields of the server, which the stream does not touch
srvvars == <<impl, running, initialized, document_store, active_tasks,
             uri_tasks, request_tasks, runpc, nread, dtask, finished, gtask,
             ready, jobs, stdin, trim>>

\* the calls of send whose thread is inside sys.stdout.write
Writing == {v \in DOMAIN writers : writers[v].st = "writing"}

\* what a write that ran beside another one can leave in the buffer: its
\* bytes, nothing, or as many zero bytes
RaceOutcomes(bytes) == {bytes, <<>>, [i \in 1..Len(bytes) |-> NUL]}

\* what sys.stdout.write(message) adds to the buffer
Written(bytes, raced) == IF raced THEN RaceOutcomes(bytes) ELSE {bytes}

\* LSPStreamIO.send up to its await: the write is handed to the executor
Send(p) ==
  /\ Len(writers) < MaxSends
  /\ writers' = Append(writers, [payload |-> p, st |-> "queued",
                                 raced |-> FALSE, seq |-> 0])
  /\ UNCHANGED <<stdout, peer>>
  /\ UNCHANGED srvvars

\* a thread of the executor enters sys.stdout.write(message)
WriteStart(w) ==
  /\ w \in DOMAIN writers
  /\ writers[w].st = "queued"
  /\ writers' = [v \in DOMAIN writers |->
                   IF v = w
                   THEN [writers[v] EXCEPT !.st = "writing",
                                           !.raced = Writing # {}]
                   ELSE IF v \in Writing
                   THEN [writers[v] EXCEPT !.raced = TRUE]
                   ELSE writers[v]]
  /\ UNCHANGED <<stdout, peer>>
  /\ UNCHANGED srvvars

\* sys.stdout.write(message) returns in the thread; seq is the place of the
\* call among the writes that have returned
WriteEnd(w) ==
  /\ w \in DOMAIN writers
  /\ writers[w].st = "writing"
  /\ \E b \in Written(FrameBytes(writers[w].payload), writers[w].raced) :
       stdout' = [stdout EXCEPT !.pending = @ \o b]
  /\ writers' =
       [writers EXCEPT
          ![w].st = "written",
          ![w].seq = 1 + Cardinality({v \in DOMAIN writers :
                                        writers[v].seq > 0})]
  /\ UNCHANGED peer
  /\ UNCHANGED srvvars

\* send after its await: sys.stdout.flush() on the loop thread
SendReturns(w) ==
  /\ w \in DOMAIN writers
  /\ writers[w].st = "written"
  /\ writers' = [writers EXCEPT ![w].st = "done"]
  /\ stdout' = [pending |-> <<>>, pipe |-> stdout.pipe \o stdout.pending]
  /\ UNCHANGED peer
  /\ UNCHANGED srvvars

\* the reader of the pipe applies read_message to what it has not consumed
ReadBack ==
  /\ peer.pos < Len(stdout.pipe)
  /\ LET r == read_message(SubSeq(stdout.pipe, peer.pos + 1,
                                  Len(stdout.pipe)))
     IN peer' = [pos |-> Len(stdout.pipe) - Len(r.rest),
                 got |-> Append(peer.got, [kind |-> r.kind,
                                           value |-> r.value])]
  /\ UNCHANGED <<stdout, writers>>
  /\ UNCHANGED srvvars

(***************************************************************************)
(* remove_suffix taken alone.                                              *)
(***************************************************************************)
\* the texts of at most MaxText characters, a line break among them
Texts == UNION {[1..n -> {"a", "b", NL}] : n \in 0..MaxText}

\* the call processed = remove_suffix(processed) returns
RemoveSuffixReturns ==
  /\ trim.text # <<>>
  /\ trim.out = <<>>
  /\ trim' = [trim EXCEPT !.out = <<remove_suffix(trim.text, trim.suffix)>>]
  /\ UNCHANGED <<impl, running, initialized, document_store, active_tasks,
                 uri_tasks, request_tasks, runpc, nread, dtask, finished, gtask,
                 ready, jobs, stdout, writers, peer, stdin>>

(***************************************************************************)
(* The specifications.                                                     *)
(***************************************************************************)
Tasks == 1..MaxMsgs

\* one callback of the event loop: the handle at the head of the queue
Loop ==
  \/ \E d \in Tasks : HandleInitialize(d)
  \/ \E d \in Tasks : InitializeResume(d)
  \/ \E d \in Tasks : HandleHover(d)
  \/ \E d \in Tasks : ResponseWritten(d)
  \/ \E d \in Tasks : HandleTrigger(d)
  \/ \E d \in Tasks : TriggerResume(d)
  \/ \E d \in Tasks : HandleNotification(d)
  \/ \E d \in Tasks : HandleCancelRequest(d)
  \/ \E d \in Tasks : HandleShutdown(d)
  \/ \E d \in Tasks : HandleExit(d)
  \/ \E d \in Tasks : HandleUnknown(d)
  \/ \E g \in Tasks : GhostCancelled(g)
  \/ \E g \in Tasks : GhostStart(g)
  \/ \E g \in Tasks : GhostApiReturn(g)
  \/ \E g \in Tasks : GhostWritten(g)
  \/ \E g \in Tasks : DoneCallback(g)
  \/ \E t \in {"d", "g"} \X Tasks : FutureDone(t)

\* what happens outside the loop thread
Outside(msgs) ==
  \/ \E m \in msgs : RunRead(m)
  \/ RunEOF
  \/ \E h \in BadHeaders : RunNoLength(h)
  \/ \E g \in DOMAIN gtask : \E r \in Answers(g) : CollaboratorRespond(g, r)
  \/ \E j \in jobs : ThreadStart(j)
  \/ \E j \in jobs : ThreadFinish(j)

Next == Loop \/ Outside(Messages("llm"))

\* the same with the client of one editing session
NextSession == Loop \/ Outside(Session)

\* LLMCoder
Spec == Init /\ [][Next]_vars

\* LLMCoder with the client of the scenario
NextScenario == Loop \/ Outside(Scenario)
SpecScenario == Init /\ [][NextScenario]_vars

\* the same with the client of EchoLSPServer
NextEcho == Loop \/ Outside(SessionEcho)

\* EchoLSPServer
SpecEcho == InitEcho /\ [][NextEcho]_vars

\* the writers of stdout and the reader of the pipe
NextIO ==
  \/ \E p \in Payloads : Send(p)
  \/ \E w \in 1..MaxSends : WriteStart(w)
  \/ \E w \in 1..MaxSends : WriteEnd(w)
  \/ \E w \in 1..MaxSends : SendReturns(w)
  \/ ReadBack

\* LSPStreamIO.send under concurrent callers, and read_message on its output
SpecIO == Init /\ [][NextIO]_vars

\* LLMCoder reading the bytes of a client that writes documents, triggers
\* and broken frames and then closes the stream
NextStdin ==
  \/ RunStream
  \/ \E d \in Tasks : HandleTrigger(d)
  \/ \E d \in Tasks : TriggerResume(d)
  \/ \E d \in Tasks : HandleNotification(d)
  \/ \E d \in Tasks : HandleExit(d)
  \/ \E g \in Tasks : GhostCancelled(g)
  \/ \E g \in Tasks : GhostStart(g)
  \/ \E g \in Tasks : GhostApiReturn(g)
  \/ \E g \in Tasks : GhostWritten(g)
  \/ \E g \in Tasks : DoneCallback(g)
  \/ \E t \in {"d", "g"} \X Tasks : FutureDone(t)
  \/ \E g \in DOMAIN gtask : \E r \in Answers(g) : CollaboratorRespond(g, r)
  \/ \E j \in jobs : ThreadStart(j)
  \/ \E j \in jobs : ThreadFinish(j)

\* the loop resumes run once the bytes, or the end of the stream, are there
SpecStdin ==
  /\ Fields("llm")
  /\ stdin \in Streams
  /\ trim = NoCall
  /\ [][NextStdin]_vars
  /\ WF_vars(RunStream)

\* remove_suffix on every response text (never empty: an empty response is
\* a failure) and every suffix context (never without the line break that
\* ends the line of the position)
SpecTrim ==
  /\ Fields("llm")
  /\ stdin = <<>>
  /\ \E t \in Texts \ {<<>>} :
       \E x \in {y \in Texts : \E i \in 1..Len(y) : y[i] = NL} :
         trim = [text |-> t, suffix |-> x, out |-> <<>>]
  /\ [][RemoveSuffixReturns]_vars

\* LLMCoder with an event loop that keeps running its ready callbacks
FairSpec == Init /\ [][NextSession]_vars /\ WF_vars(Loop)

(***************************************************************************)
(* Properties.                                                             *)
(***************************************************************************)
\* C1: when the trigger handler of LLMCoder makes its checks while the
\* registry is non-empty, no task is spawned for the trigger, no task moves
\* (so no collaborator call starts) and the registry keeps its members.
SingleFlightRejects ==
  [][\A d \in DOMAIN dtask :
       (TriggerResume(d) /\ active_tasks # {})
         => /\ active_tasks' = active_tasks
            /\ gtask' = gtask
            /\ d \notin DOMAIN gtask']_vars

\* a trigger was turned away by the single-flight check
SingleFlightRejected ==
  \E s \in finished :
    IsTrigger(s) /\ s.how = "busy"

\* C2: in every reachable state at most one tracked task is live (stated of
\* both servers; EchoLSPServer is the one that breaks it).
AtMostOneLiveTask == Cardinality(Live) <= 1

\* C3: once a task was asked to cancel, no ghostText notification is written
\* for it, wherever it was when the request came.
NoNotificationAfterCancel ==
  [][\A g \in DOMAIN gtask :
       gtask[g].signalled => gtask'[g].emitted = gtask[g].emitted]_vars

NoNotificationForChangedDocument ==
  \A g \in DOMAIN gtask : gtask[g].stale => gtask[g].emitted = <<>>

\* C6: the handler of a didClose asks every live tracked task to cancel,
\* whatever its URI.
DidCloseCancelsAll ==
  [][\A d \in DOMAIN dtask :
       (Starts(d, "textDocument/didClose") /\ HandleNotification(d))
         => \A g \in Live : gtask'[g].signalled]_vars

\* C7: a dispatch task that ended for a message with an id wrote exactly one
\* response, and it carries that id.
ExactlyOneResponse ==
  \A s \in finished :
    s.id # NoId
      => /\ Len(s.sent) = 1
         /\ s.sent[1].type = "response"
         /\ s.sent[1].id = s.id

\* C8: the handler of shutdown asks every tracked task to cancel and answers
\* with a null result.
ShutdownAnswersNull ==
  \A s \in finished :
    s.method = "shutdown" => s.sent = <<Result(s.id, "null", <<>>)>>

\* C9: a message with an id and a method no branch handles is answered with
\* an error response; without an id nothing is written for it.
UnknownMethodAnswered ==
  \A s \in finished :
    s.method \notin KnownMethods
      => IF s.id # NoId
         THEN Len(s.sent) = 1 /\ s.sent[1].kind = "error"
         ELSE s.sent = <<>>

\* C10: once the handler of exit has run, the read loop reads no message.
NoReadAfterExit == [][~running => nread' = nread]_vars

\* C11: a header block without a parsable Content-Length does not end the
\* session: run is reading again after it.
NoLengthKeepsReading ==
  [][\A h \in BadHeaders : RunNoLength(h) => runpc' = "reading"]_vars

\* C12: a task whose collaborator call failed (rejected status, exception,
\* empty body) writes no notification and hands none to the executor, keeps
\* its one result (no second call), and leaves the registry.
FailedCallIsQuiet ==
  /\ [](\A g \in DOMAIN gtask :
          gtask[g].res.kind \in {"status", "error", "empty"}
            => /\ gtask[g].emitted = <<>>
               /\ \A j \in jobs : j.owner # G(g))
  /\ [][\A g \in DOMAIN gtask :
          gtask[g].res.kind \in {"status", "error", "empty"}
            => /\ gtask'[g].res = gtask[g].res
               /\ gtask'[g].pc \in {gtask[g].pc, "done"}]_vars
  /\ \A g \in Tasks :
       (/\ g \in DOMAIN gtask
        /\ gtask[g].res.kind \in {"status", "error", "empty"})
         ~> (g \notin active_tasks)

\* a task failed and left the registry, and a later trigger was accepted
FailedThenAccepted ==
  \E g, h \in DOMAIN gtask :
    /\ g < h
    /\ gtask[g].res.kind \in {"status", "error", "empty"}
    /\ g \notin active_tasks
    /\ h \in active_tasks

\* the text ends with a non-empty beginning of the suffix context
Overlaps(text, suffix) ==
  \E i \in 1..Len(suffix) : EndsWith(text, SubSeq(suffix, 1, i))

\* C13: the task of an accepted trigger carries the trigger's uri and line;
\* when the collaborator gave it a non-empty text and nothing asked it to
\* cancel, it writes at most one notification, has written exactly one when
\* it ends, for that uri and line, with the text as given when the text does
\* not overlap the suffix context.  In the scenario (line 1, character 4 of
\* the three-line function, answer "return x + 1") the notification is
\* (u1, 1, "return x + 1").
AcceptedTriggerNotifiesOnce ==
  /\ [][\A d \in DOMAIN dtask :
          (TriggerResume(d) /\ d \notin DOMAIN gtask /\ d \in DOMAIN gtask')
            => /\ gtask'[d].uri = dtask[d].msg.uri
               /\ gtask'[d].line = dtask[d].msg.line]_vars
  /\ [](\A g \in DOMAIN gtask :
          (/\ gtask[g].res.kind = "ok"
           /\ gtask[g].res.text # <<>>
           /\ ~gtask[g].signalled)
            => /\ Len(gtask[g].emitted) <= 1
               /\ Done(g) => Len(gtask[g].emitted) = 1
               /\ \A i \in 1..Len(gtask[g].emitted) :
                    LET n == gtask[g].emitted[i]
                    IN /\ n.type = "notification"
                       /\ n.kind = "ghostText/virtualText"
                       /\ n.uri = gtask[g].uri
                       /\ n.line = gtask[g].line
                       /\ ~Overlaps(gtask[g].res.text, gtask[g].suffix)
                            => n.text = gtask[g].res.text)
  /\ [](\A g \in DOMAIN gtask :
          (/\ gtask[g].uri = "u1"
           /\ gtask[g].line = 1
           /\ gtask[g].suffix = <<NL>> \o ScenarioLines[3]
           /\ gtask[g].res = [kind |-> "ok", text |-> ScenarioAnswer]
           /\ ~gtask[g].signalled
           /\ Done(g))
            => gtask[g].emitted = <<GhostNotification("u1", 1, ScenarioAnswer)>>)

\* the task of the scenario has ended with its notification written
ScenarioNotified ==
  \E g \in DOMAIN gtask :
    /\ gtask[g].prompt =
         <<"<|fim_prefix|>", NL>> \o ScenarioLines[1] \o <<NL>>
           \o ScenarioLines[2] \o <<"<|fim_suffix|>", NL>> \o ScenarioLines[3]
           \o <<NL, "<|fim_middle|>">>
    /\ gtask[g].res.text = ScenarioAnswer
    /\ Done(g)
    /\ gtask[g].emitted = <<GhostNotification("u1", 1, ScenarioAnswer)>>

\* the document notifications
DocumentMethods ==
  {"textDocument/didOpen", "textDocument/didChange", "textDocument/didClose"}

\* the store holds what the notification m says of its document
StoreHas(store, m) ==
  IF m.method = "textDocument/didClose"
  THEN m.uri \notin DOMAIN store
  ELSE m.uri \in DOMAIN store /\ store[m.uri] = SplitLines(m.text)

\* C14: document notifications take effect in the order they were read.  The
\* handler of a notification runs only when the handler of every message
\* read before it has started (a notification handler that has started has
\* ended); it leaves the store with what its notification says and the other
\* documents as they were; and while run waits for the next message, once
\* the handler of the message read last has ended, no handler of an earlier
\* message changes the store.
DocumentsInReadOrder ==
  /\ [][\A d \in DOMAIN dtask :
          (/\ HandleNotification(d)
           /\ dtask[d].msg.method \in DocumentMethods
           /\ dtask[d].msg.typed)
            => /\ \A e \in DOMAIN dtask : e < d => dtask[e].pc # "new"
               /\ StoreHas(document_store', dtask[d].msg)
               /\ \A u \in URIs \ {dtask[d].msg.uri} :
                    /\ u \in DOMAIN document_store' <=> u \in DOMAIN document_store
                    /\ u \in DOMAIN document_store
                         => document_store'[u] = document_store[u]]_vars
  /\ [][(/\ runpc = "reading" /\ nread' = nread
          /\ nread > 0 /\ nread \notin DOMAIN dtask)
          => document_store' = document_store]_vars
  /\ [][document_store' # document_store
          => \E d \in DOMAIN dtask :
               /\ dtask[d].msg.method \in DocumentMethods
               /\ d \notin DOMAIN dtask']_vars

\* a didOpen and a didChange of u1 were read after a request whose handler
\* is still suspended in its write, and both have been applied
AppliedWhileSuspended ==
  /\ nread = 3
  /\ DOMAIN dtask = {1}
  /\ dtask[1].pc \in {"w_init", "w_resp", "w_ack"}
  /\ \E s, t \in finished :
       /\ s.method = "textDocument/didOpen"
       /\ t.method = "textDocument/didChange"
  /\ "u1" \in DOMAIN document_store
  /\ document_store["u1"] = SplitLines(T2)

\* C15: as long as run is in its loop it takes the next message, whatever
\* the handlers of earlier messages are doing, and the dispatch task of a
\* message that was read starts, the event loop running its callbacks.
ReadsWhileHandlersWait ==
  /\ [](\A m \in Session :
          (runpc = "reading" /\ nread < MaxMsgs) => ENABLED RunRead(m))
  /\ \A d \in Tasks :
       (d \in DOMAIN dtask /\ dtask[d].pc = "new")
         ~> (d \notin DOMAIN dtask \/ dtask[d].pc # "new")

\* a completion task waits on the collaborator, and the handler of a message
\* read after its trigger has started
DispatchedDuringCall ==
  \E g \in DOMAIN gtask :
    /\ gtask[g].pc = "api"
    /\ gtask[g].res = NoResult
    /\ \E d \in DOMAIN dtask : d > g /\ dtask[d].pc # "new"

\* C19: a completion task that has not ended is in active_tasks, from the
\* state in which it is created on, so that a cancel_all_tasks (here the one
\* of $/cancelGhostText) asks every task that has not ended to cancel.
SpawnedTaskIsTracked ==
  /\ [](\A g \in DOMAIN gtask : ~Done(g) => g \in active_tasks)
  /\ [][\A d \in DOMAIN dtask :
          HandleCancelRequest(d)
            => \A g \in DOMAIN gtask : ~Done(g) => gtask'[g].signalled]_vars

\* a task is created and tracked and has not taken its first step
TrackedBeforeFirstStep ==
  \E g \in DOMAIN gtask :
    gtask[g].pc = "new" /\ ~gtask[g].signalled /\ g \in active_tasks

\* C20: a completion task comes into being only for a trigger whose position
\* is in the document store as it is in that step (the uri has a document,
\* the line is one of its lines, the character is within or at the end of
\* that line), and its suffix context is cut from those lines.
SpawnsOnlyAtValidPosition ==
  [][\A g \in DOMAIN gtask' \ DOMAIN gtask :
       /\ g \in DOMAIN dtask
       /\ IsTrigger(dtask[g].msg)
       /\ LET m == dtask[g].msg
          IN /\ m.uri \in DOMAIN document_store
             /\ 0 <= m.line
             /\ m.line < Len(document_store[m.uri])
             /\ 0 <= m.character
             /\ m.character <= Len(document_store[m.uri][m.line + 1])
             /\ gtask'[g].suffix =
                  SuffixOf(document_store[m.uri], m.line, m.character)]_vars

\* a task was spawned at line 1, which the document has only since its
\* didChange; of the three messages of the run one was a didOpen, so the
\* one didChange was read after the trigger and handled while the trigger's
\* handler was suspended
SpawnedAgainstChangedDocument ==
  /\ \E g \in DOMAIN gtask : gtask[g].line = 1 /\ gtask[g].stale
  /\ \E s \in finished : s.method = "textDocument/didOpen"

\* C17: a dispatch task whose handler raised has written, as its last frame,
\* the error response with the id of its message when the message has one,
\* and nothing at all when it has none; the step in which a handler raises
\* leaves run where it is, self.running as it is, and the other dispatch
\* tasks and their queued steps as they are.
HandlerErrorIsContained ==
  /\ [](\A s \in finished :
          s.how = "raised"
            => IF s.id # NoId
               THEN /\ s.sent # <<>>
                    /\ s.sent[Len(s.sent)] = ErrorResponse(s.id)
                    /\ \A i \in 1..(Len(s.sent) - 1) : s.sent[i].kind # "error"
               ELSE s.sent = <<>>)
  /\ [][\A d \in DOMAIN dtask :
          (\/ (/\ d \in DOMAIN dtask'
                /\ dtask'[d].pc = "w_err"
                /\ dtask[d].pc # "w_err")
           \/ (/\ d \notin DOMAIN dtask'
                /\ dtask[d].msg.id = NoId
                /\ (IsTrigger(dtask[d].msg) \/ ~dtask[d].msg.typed)))
            => /\ runpc' = runpc
               /\ running' = running
               /\ \A e \in DOMAIN dtask \ {d} :
                    e \in DOMAIN dtask' /\ dtask'[e] = dtask[e]
               /\ \A e \in DOMAIN dtask \ {d} :
                    InReady(Step(D(e)))
                      => \E i \in 1..Len(ready') : ready'[i] = Step(D(e))]_vars

\* one handler raised for a message with an id and one for a message
\* without, and the one with the id was read after another had raised
RaisedWithAndWithoutId ==
  /\ \E s \in finished : s.how = "raised" /\ s.id = NoId /\ s.sent = <<>>
  /\ \E s \in finished :
       /\ s.how = "raised"
       /\ s.id # NoId
       /\ s.sent = <<Result(s.id, "ack", <<>>), ErrorResponse(s.id)>>

RECURSIVE IsFrames(_)
\* the stream is a concatenation of whole frames
IsFrames(stream) ==
  \/ stream = <<>>
  \/ LET r == read_message(stream)
     IN /\ r.kind = "message"
        /\ Len(r.rest) < Len(stream)
        /\ IsFrames(r.rest)

\* C16: whatever the handlers that write do, the bytes in the pipe are a
\* concatenation of whole frames.
OutputIsWholeFrames == IsFrames(stdout.pipe)

\* the payload of the k-th write that returned
PayloadAt(k) ==
  writers[CHOOSE w \in DOMAIN writers : writers[w].seq = k].payload

\* C18: the frame send makes of a payload carries the byte length of its
\* body, and read_message turns it back into the payload and leaves what
\* follows it in the stream; so a reader of the pipe gets the payloads in the
\* order they were written, each read ending where the next frame begins
\* (the writes one after the other).
FrameRoundTrip ==
  /\ \A w \in DOMAIN writers :
       LET p == writers[w].payload
           body == encode(dumps(p))
       IN /\ FrameBytes(p)
               = HeaderName \o Str(Len(body)) \o <<CR, NL, CR, NL>> \o body
          /\ read_message(FrameBytes(p))
               = [kind |-> "message", value |-> p, rest |-> <<>>]
          /\ \A v \in DOMAIN writers :
               read_message(FrameBytes(p) \o FrameBytes(writers[v].payload))
                 = [kind |-> "message", value |-> p,
                    rest |-> FrameBytes(writers[v].payload)]
  /\ (\A w \in DOMAIN writers : ~writers[w].raced)
       => /\ \A k \in 1..Len(peer.got) :
               peer.got[k] = [kind |-> "message", value |-> PayloadAt(k)]
          /\ peer.pos =
               Len(Flatten([k \in 1..Len(peer.got) |->
                              FrameBytes(PayloadAt(k))]))

\* two frames were written one after the other and read back, the second
\* with a two-byte character in its payload
TwoFramesReadBack ==
  /\ \A w \in DOMAIN writers : ~writers[w].raced
  /\ Len(peer.got) = 2
  /\ peer.got[1] = [kind |-> "message", value |-> <<>>]
  /\ peer.got[2] =
       [kind |-> "message",
        value |-> <<<<<<"t">>, <<EAcute, "a">>>>, <<<<"k">>, <<>>>>>>]
  /\ peer.pos = Len(stdout.pipe)

\* the texts of the ghostText/virtualText notifications written so far
EmittedTexts ==
  UNION {{gtask[g].emitted[i].text : i \in 1..Len(gtask[g].emitted)} :
           g \in DOMAIN gtask}

\* C22: the text of every suggestion notification LLMCoder has written is a
\* single line: it holds no line break, whatever the collaborator answered.
EmittedTextIsOneLine ==
  \A t \in EmittedTexts : \A k \in 1..Len(t) : t[k] # NL

\* C26: the text of every suggestion notification LLMCoder has written is
\* non-empty, also when remove_suffix trimmed the whole answer.
EmittedTextIsNonEmpty ==
  \A t \in EmittedTexts : t # <<>>

\* the position of trigger m is in the document store as it is now
ValidPosition(m) ==
  /\ m.uri \in DOMAIN document_store
  /\ m.typed
  /\ 0 <= m.line /\ m.line < Len(document_store[m.uri])
  /\ CharacterInRange(document_store[m.uri], m)

\* C25: when the trigger handler of LLMCoder makes its checks for a trigger
\* at a valid position and spawns no task, some tracked task is live: it has
\* not finished and cancel() has not been called on it.
BusyOnlyWhenLive ==
  [][\A d \in DOMAIN dtask :
       (TriggerResume(d) /\ ValidPosition(dtask[d].msg)
          /\ d \notin DOMAIN gtask')
         => \E g \in active_tasks : ~Done(g) /\ ~gtask[g].signalled]_vars

\* C27: in EchoLSPServer every tracked task that is not done is filed under
\* its uri in uri_tasks and is the value of request_tasks at its request
\* id, uri_tasks holds no empty set, and when active_tasks is empty so are
\* uri_tasks and request_tasks.
TrackingConsistent ==
  /\ \A g \in active_tasks :
       ~Done(g) =>
         /\ gtask[g].uri \in DOMAIN uri_tasks
         /\ g \in uri_tasks[gtask[g].uri]
         /\ gtask[g].rid \in DOMAIN request_tasks
         /\ request_tasks[gtask[g].rid] = g
  /\ \A u \in DOMAIN uri_tasks : uri_tasks[u] # {}
  /\ active_tasks = {} => DOMAIN uri_tasks = {} /\ DOMAIN request_tasks = {}

\* the lengths i for which the last i characters of the text are the first
\* i characters of the suffix context
OverlapLengths(text, suffix) ==
  {i \in 1..Min(Len(text), Len(suffix)) :
     \A k \in 1..i : text[Len(text) - i + k] = suffix[k]}

\* C23: what remove_suffix returns is the response text without its longest
\* overlap with the suffix context (the longest non-empty ending of the
\* text that is a beginning of the suffix context), and the text itself
\* when there is no overlap.
LongestOverlapRemoved ==
  trim.out # <<>> =>
    LET found == OverlapLengths(trim.text, trim.suffix)
    IN IF found = {} THEN trim.out[1] = trim.text
       ELSE \E i \in found :
              /\ \A j \in found : j <= i
              /\ trim.out[1] = SubSeq(trim.text, 1, Len(trim.text) - i)

\* remove_suffix has returned for a text that overlaps the suffix context
\* in two lengths, and for one that does not overlap it
TwoOverlapsTrimmed ==
  /\ trim.out # <<>>
  /\ Cardinality(OverlapLengths(trim.text, trim.suffix)) >= 2
  /\ Len(trim.out[1]) < Len(trim.text) - 1

\* C21: when run, still running, reads a frame whose body is not valid JSON
\* (an empty body under Content-Length 0 among them), the session goes on:
\* run awaits the next message, no task is created, and the stream has
\* lost the header block and exactly Content-Length bytes of body; and a
\* well-formed frame at the head of the stream, after a bad one as well,
\* is consumed whole and dispatched as the message it encodes.
BadBodyIsSkipped ==
  [][/\ \A b \in BadFrames :
          (/\ running /\ stdin' # stdin
           /\ Len(stdin) >= Len(b) /\ SubSeq(stdin, 1, Len(b)) = b)
            => /\ runpc' = "reading"
               /\ stdin' = SubSeq(stdin, Len(b) + 1, Len(stdin))
               /\ dtask' = dtask /\ ready' = ready /\ gtask' = gtask
               /\ nread' = nread + 1
     /\ \A m \in StdinMessages :
          LET f == FrameBytes(Wire(m))
          IN (/\ stdin' # stdin
              /\ Len(stdin) >= Len(f) /\ SubSeq(stdin, 1, Len(f)) = f)
               => /\ stdin' = SubSeq(stdin, Len(f) + 1, Len(stdin))
                  /\ nread' = nread + 1
                  /\ DOMAIN dtask' = DOMAIN dtask \cup {nread'}
                  /\ dtask'[nread'].msg = m
                  /\ dtask'[nread'].pc = "new"
                  /\ \E i \in 1..Len(ready') :
                       ready'[i] = Step(D(nread'))]_vars

\* two bad frames were read (no task 1, no task 2), then the frame of a
\* didOpen, whose handler has stored the document; the stream is used up
DispatchedAfterBadFrames ==
  /\ nread = 3
  /\ stdin = <<>>
  /\ runpc = "reading"
  /\ finished = {[method |-> "textDocument/didOpen", id |-> NoId,
                  sent |-> <<>>, how |-> ""]}
  /\ "u1" \in DOMAIN document_store
  /\ document_store["u1"] = SplitLines(T1)

\* C24: the client's stream is finite and closed, and run ends: runpc
\* becomes "done", also when the stream ends inside a header block or a
\* body; and the step that ends run calls cancel() on every tracked task
\* that is not done.
RunEndsAndCancels ==
  /\ <>(runpc = "done")
  /\ [][(runpc = "reading" /\ runpc' = "done")
         => \A g \in active_tasks : ~Done(g) => gtask'[g].signalled]_vars

\* run has ended at the end of a stream that was cut off (the last read
\* before it raised: three reads, two tasks), and its clean-up has called
\* cancel() on the task that was waiting for the collaborator
EndedWithTaskCancelled ==
  /\ runpc = "done"
  /\ stdin = <<>>
  /\ nread = 3
  /\ 3 \notin DOMAIN dtask
  /\ \A f \in finished : f.method # "exit"
  /\ Cardinality(finished) = 2
  /\ \E g \in active_tasks : gtask[g].signalled /\ gtask[g].res = NoResult

=============================================================================
